---- MODULE Spec2Model ----
(***************************************************************************)
(* A model of the ATMS training-data extraction of cimr.data.atms          *)
(* (resample_swaths, save_scene, process_file, process_day) and of         *)
(* SingleScaleParallelEncoder.forward of cimr.models.encoders.             *)
(*                                                                         *)
(* Brightness temperatures are integers in millikelvin; the missing value  *)
(* NaN is a distinguished integer outside the temperature range.  Times    *)
(* are minutes since 2020-01-01 00:00.  Arrays are functions               *)
(* [row -> [column -> [channel -> value]]] with 0-based channels.          *)
(***************************************************************************)
EXTENDS Integers, Sequences, FiniteSets, TLC

\* ------------------------------------------------------------------ bounds
\* Rows and columns of the 8-km grid of the domain.
Rows8 == 102
Cols8 == 2
\* The number of save_scene calls of one run of the save_scene specification.
MaxCalls == 2

\* ------------------------------------------------------- program constants
\* Resolutions (km) of the two grids of a domain: domain[8] and domain[16].
Res8 == 8
Res16 == 16
\* radius_of_influence=16e3 (metres), in km.
RadiusOfInfluence == 16
\* "Only use scenes with substantial information": the row threshold.
MinRows == 100
\* The encoding of a newly created file: scale_factor 0.01 K is 10 mK.
ScaleFactor == 10
FillValue == -99
\* round_time rounds to 15 minutes.
RoundMinutes == 15

\* ------------------------------------------------------------------ values
NaN == -(10 ^ 9)

isfinite(v) == v # NaN

\* The 16-km grid covers the same area as the 8-km grid.
Rows16 == (Rows8 * Res8) \div Res16
Cols16 == (Cols8 * Res8) \div Res16

\* A domain: its two grids and its region of interest, as the scans that
\* lie over it (roi) and as the polygon around them (roi_poly).
domain ==
    [g8  |-> [rows |-> Rows8,  cols |-> Cols8,  res |-> Res8],
     g16 |-> [rows |-> Rows16, cols |-> Cols16, res |-> Res16],
     roi |-> 1..Rows8,
     roi_poly |-> [lo |-> 1, hi |-> Rows8]]

\* ------------------------------------------------------------------- BANDS
ATMS_PRODUCTS_reversed == <<"l1c_npp_atms", "l1c_noaa20_atms">>

ATMS_PRODUCTS == <<"l1c_noaa20_atms", "l1c_npp_atms">>

BandNames == <<"mw_low", "mw_90", "mw_160", "mw_183">>

BANDS_swapped ==
    [mw_low |-> (4 :> <<"tbs_s1", 0>>),
     mw_90  |-> (0 :> <<"tbs_s3", 0>>),
     mw_160 |-> (0 :> <<"tbs_s4", 0>>),
     mw_183 |-> (0 :> <<"tbs_s4", 1>> @@ 1 :> <<"tbs_s4", 2>> @@
                 2 :> <<"tbs_s4", 3>> @@ 3 :> <<"tbs_s4", 4>> @@
                 4 :> <<"tbs_s4", 5>>)]

BANDS ==
    [mw_low |-> (4 :> <<"tbs_s1", 0>>),
     mw_90  |-> (0 :> <<"tbs_s3", 0>>),
     mw_160 |-> (0 :> <<"tbs_s4", 0>>),
     mw_183 |-> (0 :> <<"tbs_s4", 5>> @@ 1 :> <<"tbs_s4", 4>> @@
                 2 :> <<"tbs_s4", 3>> @@ 3 :> <<"tbs_s4", 2>> @@
                 4 :> <<"tbs_s4", 1>>)]

\* Channels of each output band (cimr.data.utils.make_microwave_band_array).
BandChannels ==
    [mw_low |-> 7, mw_90 |-> 2, mw_160 |-> 2, mw_183 |-> 5]

BandGrid(band) == IF band = "mw_low" THEN domain.g16 ELSE domain.g8

\* An array of the band's shape on its grid, entirely missing.
make_microwave_band_array(dom, band) ==
    LET g == IF band = "mw_low" THEN dom.g16 ELSE dom.g8
    IN  [y \in 1..g.rows |-> [x \in 1..g.cols |->
            [c \in 0..(BandChannels[band] - 1) |-> NaN]]]

\* Channels of the swaths of an ATMS L1C file.
SwathNames == <<"s1", "s2", "s3", "s4">>
SwathChannels == [s1 |-> 1, s2 |-> 1, s3 |-> 1, s4 |-> 6]

\* ------------------------------------------------------------- L1C data
(***************************************************************************)
(* An L1C file (or an overpass scene cut out of one) as the code reads     *)
(* it: the set scans of its scan lines, every scan with one sample per     *)
(* 8-km column of the domain; the sample of scan k and column j lies at    *)
(* (Res8*k - Res8/2, Res8*j - Res8/2) km, so that the scans 1..Rows8 are   *)
(* those over the domain.  Channel ch of swath s holds                     *)
(* base + ChannelOffset(s, ch) at every sample, or NaN where <<s, ch>> is  *)
(* in dead.  All swaths of a file share the geolocation.  scan_time holds  *)
(* the times of the first and the last scan, vars the names of the         *)
(* variables of the dataset.                                               *)
(***************************************************************************)
ChannelOffset(s, ch) ==
    CASE s = "s1" -> 1000
      [] s = "s2" -> 2000
      [] s = "s3" -> 3000
      [] s = "s4" -> 4000 + 1000 * ch

tbs(data, s) ==
    [ch \in 0..(SwathChannels[s] - 1) |->
        IF <<s, ch>> \in data.dead THEN NaN
        ELSE data.base + ChannelOffset(s, ch)]

SwathDefinition(data, s) == [scans |-> data.scans]

CellPos(grid, i) == grid.res * i - grid.res \div 2

SamplePos(k) == Res8 * k - Res8 \div 2

Dist2(y0, x0, y1, x1) == (y0 - y1) * (y0 - y1) + (x0 - x1) * (x0 - x1)

\* Whether a sample of the swath lies within the radius of the grid cell.
\* Only the scans whose track position can lie within the radius of the
\* cell are searched.
HasNeighbour(swath, grid, y, x, radius) ==
    LET cy == CellPos(grid, y)
        cx == CellPos(grid, x)
        near == {k \in ((cy - radius) \div Res8)..((cy + radius) \div Res8 + 1) :
                    k \in swath.scans}
    IN  \E k \in near, j \in 1..Cols8 :
            Dist2(SamplePos(k), SamplePos(j), cy, cx) <= radius * radius

\* pyresample.kd_tree.resample_nearest: the value of the nearest sample
\* within radius_of_influence, else fill_value.
resample_nearest(swath, values, grid, radius, fill_value) ==
    [y \in 1..grid.rows |-> [x \in 1..grid.cols |->
        IF HasNeighbour(swath, grid, y, x, radius) THEN values
        ELSE [ch \in DOMAIN values |-> fill_value]]]

\* The dict resample_swaths returns; keys holds its keys in insertion order.
resample_swaths_all8(dom, scene) ==
    [keys   |-> <<"tbs_s1", "tbs_s3", "tbs_s4">>,
     tbs_s1 |-> resample_nearest(SwathDefinition(scene, "s1"),
                    tbs(scene, "s1"), dom.g8, RadiusOfInfluence, NaN),
     tbs_s3 |-> resample_nearest(SwathDefinition(scene, "s3"),
                    tbs(scene, "s3"), dom.g8, RadiusOfInfluence, NaN),
     tbs_s4 |-> resample_nearest(SwathDefinition(scene, "s4"),
                    tbs(scene, "s4"), dom.g8, RadiusOfInfluence, NaN)]

resample_swaths(dom, scene) ==
    [keys   |-> <<"tbs_s1", "tbs_s3", "tbs_s4">>,
     tbs_s1 |-> resample_nearest(SwathDefinition(scene, "s1"),
                    tbs(scene, "s1"), dom.g16, RadiusOfInfluence, NaN),
     tbs_s3 |-> resample_nearest(SwathDefinition(scene, "s3"),
                    tbs(scene, "s3"), dom.g8, RadiusOfInfluence, NaN),
     tbs_s4 |-> resample_nearest(SwathDefinition(scene, "s4"),
                    tbs(scene, "s4"), dom.g8, RadiusOfInfluence, NaN)]

\* -------------------------------------------------------------------- time
IsLeap(year) ==
    (year % 4 = 0 /\ year % 100 # 0) \/ year % 400 = 0

DaysInMonth(year, month) ==
    IF month = 2 THEN (IF IsLeap(year) THEN 29 ELSE 28)
    ELSE IF month \in {4, 6, 9, 11} THEN 30 ELSE 31

RECURSIVE DateOf(_, _, _)
\* The date that lies `days` days after the first of `month` of `year`.
DateOf(days, year, month) ==
    IF days < DaysInMonth(year, month)
    THEN [year |-> year, month |-> month, day |-> days + 1]
    ELSE IF month = 12
         THEN DateOf(days - DaysInMonth(year, month), year + 1, 1)
         ELSE DateOf(days - DaysInMonth(year, month), year, month + 1)

\* The datetime of a time in minutes since 2020-01-01 00:00.
to_datetime(t) ==
    LET d == DateOf(t \div 1440, 2020, 1)
    IN  [year |-> d.year, month |-> d.month, day |-> d.day,
         hour |-> (t % 1440) \div 60, minute |-> t % 60]

\* cimr.utils.round_time: the closest multiple of 15 minutes.
round_time(t) ==
    to_datetime(((2 * t + RoundMinutes) \div (2 * RoundMinutes)) * RoundMinutes)

\* scene.scan_time.mean()
mean_scan_time(scene) ==
    (scene.scan_time[1] + scene.scan_time[2]) \div 2

\* ------------------------------------------------------------- file names
DigitStr == <<"0", "1", "2", "3", "4", "5", "6", "7", "8", "9">>

RECURSIVE Str(_)
\* f"{n}": the decimal digits of n >= 0.
Str(n) ==
    IF n < 10 THEN <<DigitStr[n + 1]>>
    ELSE Str(n \div 10) \o <<DigitStr[(n % 10) + 1]>>

\* f"{n:02}": at least two digits, padded with zeros.
Pad2(n) == IF n < 10 THEN <<"0">> \o Str(n) ELSE Str(n)

output_filename_nopad(time_15) ==
    <<"mw_">> \o Str(time_15.year) \o Str(time_15.month)
        \o Str(time_15.day) \o <<"_">> \o Str(time_15.hour)
        \o <<"_">> \o Str(time_15.minute) \o <<".nc">>

\* f"mw_{year}{month:02}{day:02}_{hour:02}_{minute:02}.nc"
output_filename(time_15) ==
    <<"mw_">> \o Str(time_15.year) \o Pad2(time_15.month)
        \o Pad2(time_15.day) \o <<"_">> \o Pad2(time_15.hour)
        \o <<"_">> \o Pad2(time_15.minute) \o <<".nc">>

\* --------------------------------------------------------------- encoding
(***************************************************************************)
(* to_netcdf with {"dtype": "int16", "scale_factor": 0.01, "_FillValue":   *)
(* -99}: a value is divided by the scale factor, rounded to the nearest    *)
(* integer (half to even) and stored as int16; a missing value is stored   *)
(* as the fill value.  load_dataset maps the fill value back to NaN and    *)
(* multiplies the rest by the scale factor.  A file read by load_dataset   *)
(* keeps this encoding when it is written again.                           *)
(***************************************************************************)
Round(v, unit) ==
    LET q == v \div unit
        r == v % unit
    IN  IF 2 * r < unit THEN q
        ELSE IF 2 * r > unit THEN q + 1
        ELSE IF q % 2 = 0 THEN q ELSE q + 1

Encode(v) == IF isfinite(v) THEN Round(v, ScaleFactor) ELSE FillValue

Decode(q) == IF q = FillValue THEN NaN ELSE q * ScaleFactor

EncodeArray(a) ==
    [y \in DOMAIN a |-> [x \in DOMAIN a[y] |->
        [c \in DOMAIN a[y][x] |-> Encode(a[y][x][c])]]]

DecodeArray(a) ==
    [y \in DOMAIN a |-> [x \in DOMAIN a[y] |->
        [c \in DOMAIN a[y][x] |-> Decode(a[y][x][c])]]]

\* ------------------------------------------------------------- save_scene
\* np.any(np.isfinite(a[..., 0]), axis=-1).sum(): the rows of the grid with
\* a finite value in channel 0.
RowsWithData(a) ==
    Cardinality({y \in DOMAIN a : \E x \in DOMAIN a[y] : isfinite(a[y][x][0])})

\* "Extract observations and map to CIMR bands": results[band].
MapBand(dom, band, tbs_r) ==
    LET obs == make_microwave_band_array(dom, band)
    IN  [y \in DOMAIN obs |-> [x \in DOMAIN obs[y] |->
            [c \in DOMAIN obs[y][x] |->
                IF c \in DOMAIN BANDS[band]
                THEN tbs_r[BANDS[band][c][1]][y][x][BANDS[band][c][2]]
                ELSE obs[y][x][c]]]]

\* var_out.data[~missing] = var_in.data[~missing]
MergeArray_overwrite(var_out, var_in) == var_in

MergeArray(var_out, var_in) ==
    [y \in DOMAIN var_out |-> [x \in DOMAIN var_out[y] |->
        [c \in DOMAIN var_out[y][x] |->
            IF isfinite(var_in[y][x][c]) THEN var_in[y][x][c]
            ELSE var_out[y][x][c]]]]

\* dataset_out.attrs[...] += ", " + name
AppendAttr_unique(attr, name) ==
    IF \E i \in DOMAIN attr : attr[i] = name THEN attr
    ELSE attr \o <<", ", name>>

AppendAttr(attr, name) == attr \o <<", ", name>>

\* "Only use scenes with substantial information": whether save_scene
\* returns without writing.
TooLittle_le(tbs_r) ==
    LET key_8 == tbs_r.keys[Len(tbs_r.keys)]
    IN  RowsWithData(tbs_r[key_8]) <= MinRows

TooLittle(tbs_r) ==
    LET key_8 == tbs_r.keys[Len(tbs_r.keys)]
    IN  RowsWithData(tbs_r[key_8]) < MinRows

\* The file the else branch writes: a new dataset, with the int16 encoding.
NewFile(dataset, scene) ==
    [bands     |-> [band \in DOMAIN dataset |-> EncodeArray(dataset[band])],
     sensor    |-> <<scene.attrs.InstrumentName>>,
     satellite |-> <<scene.attrs.SatelliteName>>]

\* The file the if branch writes: the loaded file with the new scene merged
\* into it.  An attribute is the sequence of the strings concatenated.
MergedFile(file, dataset, scene) ==
    LET dataset_out == [band \in DOMAIN file.bands |-> DecodeArray(file.bands[band])]
        merged == [band \in DOMAIN dataset_out \cup DOMAIN dataset |->
                     IF band \in DOMAIN dataset_out
                     THEN MergeArray(dataset_out[band], dataset[band])
                     ELSE dataset[band]]
    IN  [bands     |-> [band \in DOMAIN merged |->
                          IF band \in DOMAIN dataset_out
                          THEN EncodeArray(merged[band])
                          ELSE merged[band]],
         sensor    |-> AppendAttr(file.sensor, scene.attrs.InstrumentName),
         satellite |-> AppendAttr(file.satellite, scene.attrs.SatelliteName)]

\* The output folder after save_scene(domain, scene, tbs_r, output_folder);
\* fold maps the names of the files of the folder to their contents.
save_scene(dom, scene, tbs_r, fold) ==
    LET dataset == [band \in DOMAIN BANDS |-> MapBand(dom, band, tbs_r)]
        time_15 == round_time(mean_scan_time(scene))
        filename == output_filename(time_15)
    IN  IF TooLittle(tbs_r) THEN fold
        ELSE IF filename \in DOMAIN fold
        THEN [fold EXCEPT ![filename] = MergedFile(fold[filename], dataset, scene)]
        ELSE [f \in DOMAIN fold \cup {filename} |->
                IF f = filename THEN NewFile(dataset, scene) ELSE fold[f]]

\* ------------------------------------------------------------------ inputs
T(month_days, d, hour, minute) ==
    ((month_days + d - 1) * 24 + hour) * 60 + minute

\* The variables of an L1C dataset as product.open returns it.
L1CVars ==
    {"latitude_s1", "longitude_s1", "tbs_s1", "latitude_s2", "longitude_s2",
     "tbs_s2", "latitude_s3", "longitude_s3", "tbs_s3", "latitude_s4",
     "longitude_s4", "tbs_s4", "scan_time"}

\* One pass of a satellite: its scans and the times of the first and last.
Pass(scans, t0, t1) == [scans |-> scans, scan_time |-> <<t0, t1>>]

\* A file holds the scans of its passes, one after the other.
L1C(passes, base, dead, satellite) ==
    [passes |-> passes,
     scans |-> UNION {passes[k].scans : k \in DOMAIN passes},
     scan_time |-> <<passes[1].scan_time[1], passes[Len(passes)].scan_time[2]>>,
     base |-> base, dead |-> dead,
     attrs |-> [InstrumentName |-> "ATMS", SatelliteName |-> satellite],
     vars |-> L1CVars]

\* The L1C files of the model.  Files 1 to 5 are the scenes of the
\* save_scene specification; files 6 to 8 are further files of the day.
L1CFiles ==
    <<L1C(<<Pass(1..Rows8, T(0, 11, 4, 40), T(0, 11, 4, 50))>>,
          250000, {}, "NOAA20"),
      L1C(<<Pass(1..97, T(0, 11, 4, 46), T(0, 11, 4, 54))>>,
          240000, {}, "NPP"),
      L1C(<<Pass(5..Rows8, T(0, 11, 4, 46), T(0, 11, 4, 54))>>,
          260004, {}, "NPP"),
      L1C(<<Pass(1..Rows8, T(0, 11, 4, 50), T(0, 11, 4, 56))>>,
          270006, {<<"s1", 0>>}, "NOAA20"),
      L1C(<<Pass(1..Rows8, T(0, 11, 4, 40), T(0, 11, 4, 50))>>,
          280000, {<<"s4", 0>>}, "NPP"),
      L1C(<<Pass(200..300, T(0, 11, 5, 40), T(0, 11, 5, 50))>>,
          230000, {}, "NOAA20"),
      L1C(<<Pass(-20..60, T(0, 11, 4, 40), T(0, 11, 4, 52)),
            Pass(45..(Rows8 + 20), T(0, 11, 6, 20), T(0, 11, 6, 34))>>,
          260004, {}, "NPP"),
      L1C(<<Pass(110..120, T(0, 11, 7, 40), T(0, 11, 7, 50))>>,
          220000, {}, "NPP")>>

\* The resampled swaths of the files.
Resampled == [i \in DOMAIN L1CFiles |-> resample_swaths(domain, L1CFiles[i])]

\* Scan times of the scenes handed to save_scene (first and last scan).
ScanTimes ==
    <<<<T(0, 11, 4, 40), T(0, 11, 4, 50)>>,
      <<T(0, 11, 4, 46), T(0, 11, 4, 54)>>,
      <<T(0, 11, 4, 50), T(0, 11, 4, 56)>>,
      <<T(305, 1, 4, 40), T(305, 1, 4, 50)>>,
      <<T(335, 31, 23, 50), T(335, 31, 23, 58)>>>>

\* The scenes handed to save_scene: a file of L1CFiles (1 to 5) and a scan
\* time of ScanTimes.
SaveInputs ==
    {<<1, 1>>, <<3, 2>>, <<4, 2>>, <<5, 1>>, <<2, 1>>, <<2, 3>>,
     <<1, 3>>, <<3, 3>>, <<3, 4>>, <<1, 4>>, <<4, 5>>, <<5, 5>>}

\* ------------------------------------------------------------ process_file
\* pansat.roi.find_overpasses: the scenes of the passes of the data over the
\* region of interest, each cut to the scans over it.  The geolocation is
\* read from the variables latitude and longitude.
find_overpasses(roi, data) ==
    LET over == SelectSeq(data.passes, LAMBDA ps : ps.scans \cap roi # {})
    IN  IF {"latitude", "longitude"} \subseteq data.vars
        THEN [k \in DOMAIN over |->
                [data EXCEPT !.passes = <<over[k]>>,
                             !.scans = over[k].scans \cap roi,
                             !.scan_time = over[k].scan_time]]
        ELSE <<>>

RECURSIVE SaveScenes(_, _, _, _, _)
\* The loop of process_file from scene k on; Tbs(scene) is the dict handed
\* to save_scene with the scene.
SaveScenes(dom, scenes, k, Tbs(_), fold) ==
    IF k > Len(scenes) THEN fold
    ELSE SaveScenes(dom, scenes, k + 1, Tbs,
                    save_scene(dom, scenes[k], Tbs(scenes[k]), fold))

\* process_file(domain, data, output_folder): the caller's dataset and the
\* output folder after the call, and the scenes handed to save_scene.
process_file_scene(dom, data, fold) ==
    LET copy == [data EXCEPT !.vars = @ \cup {"latitude", "longitude"}]
        scenes == find_overpasses(dom.roi, copy)
    IN  [data |-> data,
         scenes |-> scenes,
         fold |-> SaveScenes(dom, scenes, 1,
                     LAMBDA scene : resample_swaths(dom, scene), fold)]

process_file(dom, data, fold) ==
    LET copy == [data EXCEPT !.vars = @ \cup {"latitude", "longitude"}]
        scenes == find_overpasses(dom.roi, copy)
    IN  [data |-> data,
         scenes |-> scenes,
         fold |-> SaveScenes(dom, scenes, 1,
                     LAMBDA scene : resample_swaths(dom, copy), fold)]

\* ------------------------------------------------------------- process_day
\* The files the provider holds of each product, the swath their metadata
\* describes and the L1C file they download as.
Catalog ==
    [l1c_noaa20_atms |-> {"n20_a", "n20_b"},
     l1c_npp_atms    |-> {"npp_c", "npp_d"}]

FileInfo ==
    [n20_a |-> [swath |-> [lo |-> 1, hi |-> Rows8], d |-> 1],
     n20_b |-> [swath |-> [lo |-> 200, hi |-> 300], d |-> 6],
     npp_c |-> [swath |-> [lo |-> -20, hi |-> Rows8 + 20], d |-> 7],
     npp_d |-> [swath |-> [lo |-> 95, hi |-> 120], d |-> 8]]

\* parse_swath(provider.download_metadata(filename))
parse_swath(filename) == FileInfo[filename].swath

\* swath.intersects(domain["roi_poly"].to_geometry())
intersects(swath, poly) == swath.lo <= poly.hi /\ poly.lo <= swath.hi

\* "Check if swath covers ROI": whether process_day extracts the file.
covers_roi_always(dom, swath) == TRUE

covers_roi(dom, swath) == intersects(swath, dom.roi_poly)

\* start_time and end_time of the day (day: days since 2020-01-01).
start_time(day) == day * 1440
end_time(day) == start_time(day) + 23 * 60 + 59

\* Path(output_folder) / "microwave"
output_path == "microwave"

\* -------------------------------------------------------- encoders.py
\* Stages of the encoder every input gets (encoder_config.stage_depths).
NStages == 2

\* The input configurations a model is built from: name, scale and
\* deep_supervision of each input.
InputNames == {"mw", "geo", "visir"}

InputConfigs ==
    {cfgs \in [InputNames -> {"absent", "plain", "deep"}] :
        \E n \in InputNames : cfgs[n] # "absent"}

Configured(cfgs) == {n \in InputNames : cfgs[n] # "absent"}

\* encoder.skip_connections: the scales of the stages of an encoder compiled
\* with base_scale = min_input_scale (here scale 1).
skip_connections == {2 ^ k : k \in 0..(NStages - 1)}

\* __init__: self.deep_supervision, self.aggregators (one aggregator per
\* scale that more than one encoder provides).
deep_supervision(cfgs) == {n \in InputNames : cfgs[n] = "deep"}

aggregators(cfgs) ==
    IF Cardinality(Configured(cfgs)) > 1 THEN skip_connections ELSE {}

\* The feature maps an encoder returns with return_skips=True.
Encodings(inpt) ==
    [kind |-> "features",
     items |-> [scl \in skip_connections |-> <<"tensor", {inpt}, scl>>]]

\* forward(inputs): inputs is the sequence of the names of the dict's
\* entries in insertion order.  The value returned is
\*   [kind |-> "features", items |-> scale -> tensor]      a Dict[int, Tensor],
\*   [kind |-> "by_input", items |-> name -> features]     a dict of such dicts,
\*   [kind |-> "tuple", ...]                               a tuple of the two,
\*   [kind |-> "raise"]                                    an exception.
forward(cfgs, inputs) ==
    LET names == {inputs[k] : k \in DOMAIN inputs}
        encodings == [n \in names |-> Encodings(n)]
        aggregated ==
            [kind |-> "features",
             items |-> [scl \in aggregators(cfgs) |-> <<"tensor", names, scl>>]]
        supervised ==
            [kind |-> "by_input",
             items |-> [n \in deep_supervision(cfgs) \cap names |-> encodings[n]]]
    IN  IF \E n \in names : n \notin Configured(cfgs)
        THEN [kind |-> "raise"]                    \* self.upsamplers[inpt]
        ELSE IF aggregators(cfgs) = {}
        THEN IF inputs = <<>> THEN [kind |-> "raise"]   \* next(iter(...))
             ELSE encodings[inputs[1]]
        ELSE IF deep_supervision(cfgs) = {} THEN aggregated
        ELSE [kind |-> "tuple", first |-> aggregated, second |-> supervised]

\* ------------------------------------------------------------------- state
VARIABLES
    folder,     \* the files of <output_folder>/microwave: file name -> file
    calls,      \* the save_scene calls so far: <<file index, scene>>
    scene_in,   \* resample_swaths: the dataset to resample
    tbs_out,    \* resample_swaths: the dict returned (<<>> before the call)
    enc_cfg,    \* encoder: the input configurations of the module
    enc_inputs, \* encoder: the names of the inputs of a forward call
    enc_out,    \* encoder: the value forward returned (<<>> before the call)
    pc,         \* process_day: the statement to execute next
    today,      \* process_day: the day to process
    dirs,       \* process_day: the directories that exist under output_folder
    root,       \* process_day: the files of <output_folder> itself
    prod,       \* process_day: the index of the product in ATMS_PRODUCTS
    listed,     \* process_day: product_files of the products so far
    idx,        \* process_day: the index of filename in product_files
    tmpdirs,    \* process_day: the temporary directories that exist
    ntmp,       \* process_day: the temporary directories created so far
    l1c_data,   \* process_day: the dataset product.open returned
    events      \* process_day: the calls made so far

vars == <<folder, calls, scene_in, tbs_out, enc_cfg, enc_inputs, enc_out,
          pc, today, dirs, root, prod, listed, idx, tmpdirs, ntmp, l1c_data,
          events>>

saveVars == <<folder, calls>>
resampleVars == <<scene_in, tbs_out>>
encVars == <<enc_cfg, enc_inputs, enc_out>>
dayVars == <<pc, today, dirs, root, prod, listed, idx, tmpdirs, ntmp, l1c_data,
            events>>

IdleSave == folder = <<>> /\ calls = <<>>
IdleResample == scene_in = <<>> /\ tbs_out = <<>>
IdleEnc == enc_cfg = <<>> /\ enc_inputs = <<>> /\ enc_out = <<>>
IdleDay ==
    /\ pc = "idle" /\ today = 0 /\ dirs = {} /\ root = <<>> /\ prod = 0
    /\ listed = <<>> /\ idx = 0 /\ tmpdirs = {} /\ ntmp = 0 /\ l1c_data = <<>>
    /\ events = <<>>

\* ----------------------------------------------- specification: save_scene
\* One call save_scene(domain, scene, tbs_r, output_folder).
SaveScene(d, scene) ==
    /\ folder' = save_scene(domain, scene, Resampled[d], folder)
    /\ calls' = Append(calls, [d |-> d, scene |-> scene])
    /\ UNCHANGED <<resampleVars, encVars, dayVars>>

InitSave == IdleSave /\ IdleResample /\ IdleEnc /\ IdleDay

NextSave ==
    \E in \in SaveInputs :
        /\ Len(calls) < MaxCalls
        /\ SaveScene(in[1], [scan_time |-> ScanTimes[in[2]],
                             attrs |-> L1CFiles[in[1]].attrs])

SpecSave == InitSave /\ [][NextSave]_vars

\* ------------------------------------------ specification: resample_swaths
ResampleInputs ==
    {L1C(<<Pass(lo..hi, T(0, 11, 4, 40), T(0, 11, 4, 50))>>, base, dead, "NPP") :
        lo \in {-5, 1, 4, 50}, hi \in {0, 3, 60, Rows8, Rows8 + 5},
        base \in {250000, 260004},
        dead \in {{}, {<<"s1", 0>>}, {<<"s4", 0>>}}}

InitResample ==
    /\ IdleSave /\ IdleEnc /\ IdleDay
    /\ scene_in \in ResampleInputs
    /\ tbs_out = <<>>

ResampleSwaths ==
    /\ tbs_out = <<>>
    /\ tbs_out' = resample_swaths(domain, scene_in)
    /\ UNCHANGED <<scene_in, saveVars, encVars, dayVars>>

NextResample == ResampleSwaths

SpecResample == InitResample /\ [][NextResample]_vars

\* -------------------------------------------------- specification: encoder
\* The input dicts of a forward call: the entries in insertion order.
RECURSIVE Orderings(_)
Orderings(S) ==
    IF S = {} THEN {<<>>}
    ELSE UNION {{<<n>> \o rest : rest \in Orderings(S \ {n})} : n \in S}

InputDicts == UNION {Orderings(S) : S \in SUBSET InputNames}

InitEnc ==
    /\ IdleSave /\ IdleResample /\ IdleDay
    /\ enc_cfg \in InputConfigs
    /\ enc_inputs \in InputDicts
    /\ enc_out = <<>>

Forward ==
    /\ enc_out = <<>>
    /\ enc_out' = forward(enc_cfg, enc_inputs)
    /\ UNCHANGED <<enc_cfg, enc_inputs, saveVars, resampleVars, dayVars>>

NextEnc == Forward

SpecEnc == InitEnc /\ [][NextEnc]_vars

\* ---------------------------------------------- specification: process_day
\* The days process_day is called for.
Days == {10, 304}

Event(op, file, tmp, range) ==
    [op |-> op, file |-> file, tmp |-> tmp, range |-> range]

product == ATMS_PRODUCTS[prod]
product_files == listed[prod]
filename == product_files[idx]

InitDay ==
    /\ IdleSave /\ IdleResample /\ IdleEnc
    /\ pc = "start"
    /\ today \in Days
    /\ dirs \in {{}, {"microwave"}}
    /\ root = <<>>
    /\ prod = 0 /\ listed = <<>> /\ idx = 0
    /\ tmpdirs = {} /\ ntmp = 0 /\ l1c_data = <<>>
    /\ events = <<>>

\* output_folder = Path(output_folder) / "microwave"; mkdir if missing.
MakeFolder ==
    /\ pc = "start"
    /\ dirs' = dirs \cup {output_path}
    /\ events' = IF output_path \in dirs THEN events
                 ELSE Append(events, Event("mkdir", output_path, 0, <<0, 0>>))
    /\ prod' = 1
    /\ pc' = "list"
    /\ UNCHANGED <<today, root, listed, idx, tmpdirs, ntmp, l1c_data,
                   saveVars, resampleVars, encVars>>

\* provider.get_files_in_range(start_time, end_time): the provider lists
\* some of the files of the product, in some order.
ListFiles ==
    /\ pc = "list"
    /\ \E S \in SUBSET Catalog[product] : \E files \in Orderings(S) :
           listed' = Append(listed, files)
    /\ events' = Append(events,
           Event("list", product, 0, <<start_time(today), end_time(today)>>))
    /\ idx' = 1
    /\ pc' = "file"
    /\ UNCHANGED <<today, dirs, root, prod, tmpdirs, ntmp, l1c_data,
                   saveVars, resampleVars, encVars>>

\* The loop over product_files is exhausted: the next product, or the end.
NextProduct ==
    /\ pc = "file"
    /\ idx > Len(product_files)
    /\ prod' = prod + 1
    /\ pc' = IF prod < Len(ATMS_PRODUCTS) THEN "list" ELSE "done"
    /\ UNCHANGED <<today, dirs, root, listed, idx, tmpdirs, ntmp, l1c_data, events,
                   saveVars, resampleVars, encVars>>

\* swath = parse_swath(provider.download_metadata(filename)) and the test
\* of the swath; with TemporaryDirectory() as tmp.
CheckSwath ==
    /\ pc = "file"
    /\ idx <= Len(product_files)
    /\ LET swath == parse_swath(filename)
           meta == Event("metadata", filename, 0, <<0, 0>>)
       IN  IF covers_roi(domain, swath)
           THEN /\ ntmp' = ntmp + 1
                /\ tmpdirs' = tmpdirs \cup {ntmp + 1}
                /\ events' = events \o
                       <<meta, Event("mktmp", filename, ntmp + 1, <<0, 0>>)>>
                /\ pc' = "download"
                /\ idx' = idx
           ELSE /\ events' = Append(events, meta)
                /\ idx' = idx + 1
                /\ pc' = "file"
                /\ UNCHANGED <<ntmp, tmpdirs>>
    /\ UNCHANGED <<today, dirs, root, prod, listed, l1c_data,
                   saveVars, resampleVars, encVars>>

\* provider.download_file(filename, tmp / filename)
DownloadFile ==
    /\ pc = "download"
    /\ events' = Append(events, Event("download", filename, ntmp, <<0, 0>>))
    /\ pc' = "open"
    /\ UNCHANGED <<today, dirs, root, prod, listed, idx, tmpdirs, ntmp, l1c_data,
                   saveVars, resampleVars, encVars>>

\* data = product.open(tmp / filename)
OpenFile ==
    /\ pc = "open"
    /\ ntmp \in tmpdirs
    /\ l1c_data' = L1CFiles[FileInfo[filename].d]
    /\ events' = Append(events, Event("open", filename, ntmp, <<0, 0>>))
    /\ pc' = "process"
    /\ UNCHANGED <<today, dirs, root, prod, listed, idx, tmpdirs, ntmp,
                   saveVars, resampleVars, encVars>>

\* process_file(domain, data, output_folder)
ProcessFile ==
    /\ pc = "process"
    /\ LET into == IF output_path = "microwave" THEN folder ELSE root
           r == process_file(domain, l1c_data, into)
       IN  /\ l1c_data' = r.data
           /\ folder' = IF output_path = "microwave" THEN r.fold ELSE folder
           /\ root' = IF output_path = "microwave" THEN root ELSE r.fold
           /\ calls' = calls \o
                  [k \in DOMAIN r.scenes |->
                      [d |-> FileInfo[filename].d, scene |-> r.scenes[k]]]
    /\ events' = Append(events, Event("process_file", filename, 0, <<0, 0>>))
    /\ pc' = "cleanup"
    /\ UNCHANGED <<today, dirs, prod, listed, idx, tmpdirs, ntmp,
                   resampleVars, encVars>>

\* The end of the with block: the temporary directory is removed.
Cleanup ==
    /\ pc = "cleanup"
    /\ tmpdirs' = tmpdirs \ {ntmp}
    /\ events' = Append(events, Event("rmtmp", filename, ntmp, <<0, 0>>))
    /\ idx' = idx + 1
    /\ pc' = "file"
    /\ UNCHANGED <<today, dirs, root, prod, listed, ntmp, l1c_data,
                   saveVars, resampleVars, encVars>>

\* A call into the provider or the product raises: the exception leaves
\* the with block (which removes the temporary directory) and process_day.
Raise ==
    /\ pc \in {"list", "file", "download", "open", "process"}
    /\ pc = "file" => idx <= Len(product_files)
    /\ tmpdirs' = {}
    /\ events' = events \o <<Event("raise", "", 0, <<0, 0>>)>> \o
           [k \in 1..Cardinality(tmpdirs) |->
               Event("rmtmp", filename, ntmp, <<0, 0>>)]
    /\ pc' = "raised"
    /\ UNCHANGED <<today, dirs, root, prod, listed, idx, ntmp, l1c_data,
                   saveVars, resampleVars, encVars>>

NextDay ==
    \/ MakeFolder
    \/ ListFiles
    \/ NextProduct
    \/ CheckSwath
    \/ DownloadFile
    \/ OpenFile
    \/ ProcessFile
    \/ Cleanup
    \/ Raise

SpecDay == InitDay /\ [][NextDay]_vars

\* ====================================================== claims: save_scene
\* The time bucket of a save_scene call.
Bucket(call) == round_time(mean_scan_time(call.scene))

\* The rows of the 8-km grid where channel 0 of the resampled tbs_s4 of file
\* d is finite in some column.
FiniteRowsOf ==
    [d \in DOMAIN L1CFiles |->
        Cardinality({y \in 1..Rows8 :
            \E x \in 1..Cols8 : Resampled[d].tbs_s4[y][x][0] # NaN})]

FiniteRows(d) == FiniteRowsOf[d]

\* The calls with substantial information, and their buckets.
IsWritten(call) == FiniteRows(call.d) >= 100

Buckets == {Bucket(calls[i]) : i \in {j \in DOMAIN calls : IsWritten(calls[j])}}

\* The calls written into bucket b, in call order.
WrittenTo(b) == SelectSeq(calls, LAMBDA c : IsWritten(c) /\ Bucket(c) = b)

\* The dataset save_scene builds from the resampled swaths of file d.
Mapped == [d \in DOMAIN L1CFiles |->
             [band \in DOMAIN BANDS |-> MapBand(domain, band, Resampled[d])]]

\* The value at a pixel of the last of the calls ws that is finite there.
LastFinite(ws, band, y, x, c) ==
    LET fin == {i \in DOMAIN ws : Mapped[ws[i].d][band][y][x][c] # NaN}
    IN  IF fin = {} THEN NaN
        ELSE Mapped[ws[CHOOSE i \in fin : \A j \in fin : j <= i].d][band][y][x][c]

\* C1: after any sequence of save_scene calls the folder holds exactly one
\* file per time bucket a scene was written to: scenes of one bucket share
\* the file named after the bucket, scenes of different buckets have
\* different files.
C1_OneFilePerBucket ==
    /\ \A b \in Buckets : output_filename(b) \in DOMAIN folder
    /\ Cardinality(DOMAIN folder) = Cardinality(Buckets)

\* Two written scenes with different mean scan times share one bucket file.
C1_Witness ==
    /\ Len(calls) = 2
    /\ IsWritten(calls[1]) /\ IsWritten(calls[2])
    /\ mean_scan_time(calls[1].scene) # mean_scan_time(calls[2].scene)
    /\ Bucket(calls[1]) = Bucket(calls[2])
    /\ DOMAIN folder =
         {<<"mw_", "2", "0", "2", "0", "0", "1", "1", "1", "_", "0", "4",
            "_", "4", "5", ".nc">>}

\* C2 (amended): in every file, every pixel and channel of every band holds
\* the value, rounded to the file's int16 encoding (hundredths of a kelvin),
\* of the last scene written to the bucket that is finite there, and the
\* fill value when no scene was: merging a scene replaces exactly the values
\* it has, and a stored value never becomes missing.
C2_MergeKeepsLastFinite ==
    \A b \in Buckets :
        LET ws == WrittenTo(b)
            file == folder[output_filename(b)]
        IN  \A band \in DOMAIN file.bands :
              \A y \in DOMAIN file.bands[band] :
                \A x \in DOMAIN file.bands[band][y] :
                  \A c \in DOMAIN file.bands[band][y][x] :
                    file.bands[band][y][x][c]
                        = Encode(LastFinite(ws, band, y, x, c))

\* C2 as stated: the stored value is the value of the last scene finite
\* there, itself.
C2_MergeExact ==
    \A b \in Buckets :
        LET ws == WrittenTo(b)
            file == folder[output_filename(b)]
        IN  \A band \in DOMAIN file.bands :
              \A y \in DOMAIN file.bands[band] :
                \A x \in DOMAIN file.bands[band][y] :
                  \A c \in DOMAIN file.bands[band][y][x] :
                    Decode(file.bands[band][y][x][c])
                        = LastFinite(ws, band, y, x, c)

\* A second scene was merged into a file: where it is missing the first
\* scene's value is kept, where it is finite its value is stored.
C2_Witness ==
    \E b \in Buckets :
        LET ws == WrittenTo(b)
            file == folder[output_filename(b)]
        IN  /\ Len(ws) = 2
            /\ \E y \in 1..Rows8 :
                 /\ Mapped[ws[2].d].mw_90[y][1][0] = NaN
                 /\ Mapped[ws[1].d].mw_90[y][1][0] # NaN
                 /\ file.bands.mw_90[y][1][0] = Encode(Mapped[ws[1].d].mw_90[y][1][0])
            /\ \E y \in 1..Rows8 :
                 /\ Mapped[ws[2].d].mw_90[y][1][0] # NaN
                 /\ Mapped[ws[1].d].mw_90[y][1][0] # NaN
                 /\ Mapped[ws[1].d].mw_90[y][1][0] # Mapped[ws[2].d].mw_90[y][1][0]
                 /\ file.bands.mw_90[y][1][0] = Encode(Mapped[ws[2].d].mw_90[y][1][0])

\* The channels of a newly created file, given how a stored value st must
\* relate to the resampled value v it comes from.
NewFileChannels(Same(_, _)) ==
    \A b \in Buckets :
        LET ws == WrittenTo(b)
            file == folder[output_filename(b)]
            r == Resampled[ws[1].d]
        IN  Len(ws) = 1 =>
            /\ DOMAIN file.bands = {"mw_low", "mw_90", "mw_160", "mw_183"}
            /\ DOMAIN file.bands.mw_low = 1..Rows16
            /\ \A band \in {"mw_90", "mw_160", "mw_183"} :
                   DOMAIN file.bands[band] = 1..Rows8
            /\ \A y \in 1..Rows16 :
                 /\ DOMAIN file.bands.mw_low[y] = 1..Cols16
                 /\ \A x \in 1..Cols16 :
                      /\ Same(file.bands.mw_low[y][x][4], r.tbs_s1[y][x][0])
                      /\ \A c \in DOMAIN file.bands.mw_low[y][x] \ {4} :
                           file.bands.mw_low[y][x][c] = FillValue
            /\ \A y \in 1..Rows8 :
                 /\ \A band \in {"mw_90", "mw_160", "mw_183"} :
                        DOMAIN file.bands[band][y] = 1..Cols8
                 /\ \A x \in 1..Cols8 :
                      /\ Same(file.bands.mw_90[y][x][0], r.tbs_s3[y][x][0])
                      /\ Same(file.bands.mw_160[y][x][0], r.tbs_s4[y][x][0])
                      /\ \A k \in 0..4 :
                           Same(file.bands.mw_183[y][x][k], r.tbs_s4[y][x][5 - k])
                      /\ \A c \in DOMAIN file.bands.mw_90[y][x] \ {0} :
                           file.bands.mw_90[y][x][c] = FillValue
                      /\ \A c \in DOMAIN file.bands.mw_160[y][x] \ {0} :
                           file.bands.mw_160[y][x][c] = FillValue
                      /\ DOMAIN file.bands.mw_183[y][x] = 0..4

\* C5 (amended): a newly created file holds the four bands, mw_low on the
\* 16-km grid and the others on the 8-km grid; every channel BANDS maps
\* holds the resampled input channel it names rounded to the file's int16
\* encoding (hundredths of a kelvin), and every other channel is missing.
C5_BandMapping ==
    NewFileChannels(LAMBDA st, v :
        st = (IF v = NaN THEN FillValue ELSE Round(v, ScaleFactor)))

\* C5 as stated: every mapped channel equals the resampled input channel.
C5_BandMappingExact ==
    NewFileChannels(LAMBDA st, v : Decode(st) = v)

\* A file was created from a scene whose values are finite in every mapped
\* channel and not multiples of the scale factor.
C5_Witness ==
    \E b \in Buckets :
        LET ws == WrittenTo(b)
            file == folder[output_filename(b)]
            r == Resampled[ws[1].d]
        IN  /\ Len(ws) = 1
            /\ r.tbs_s1[Rows16][1][0] # NaN
            /\ r.tbs_s1[Rows16][1][0] % ScaleFactor # 0
            /\ file.bands.mw_low[Rows16][1][4] # FillValue
            /\ file.bands.mw_183[Rows8][1][0] # file.bands.mw_183[Rows8][1][4]

\* C7: a save_scene call whose tbs_s4 has fewer than 100 rows with a finite
\* value in channel 0 leaves the output folder unchanged; with 100 or more
\* such rows the scene is written to the file of its time bucket.
C7_SubstantialOnly ==
    [][Len(calls') = Len(calls) + 1 =>
        LET c == calls'[Len(calls')]
            name == output_filename(Bucket(c))
        IN  /\ FiniteRows(c.d) < 100 => folder' = folder
            /\ FiniteRows(c.d) >= 100 =>
                 /\ name \in DOMAIN folder'
                 /\ folder' # folder
                 /\ folder'[name].satellite[Len(folder'[name].satellite)]
                        = c.scene.attrs.SatelliteName]_vars

\* A scene with 99 such rows was dropped and one with exactly 100 was
\* written.
C7_Witness ==
    /\ Len(calls) = 2
    /\ FiniteRows(calls[1].d) = 100
    /\ FiniteRows(calls[2].d) = 99
    /\ Bucket(calls[1]) # Bucket(calls[2])
    /\ DOMAIN folder = {output_filename(Bucket(calls[1]))}

\* The names an attribute lists, separated by ", ".
Names(attr) == [i \in 1..((Len(attr) + 1) \div 2) |-> attr[2 * i - 1]]

Separated(attr) ==
    /\ Len(attr) % 2 = 1
    /\ \A i \in DOMAIN attr : (i % 2 = 0) <=> (attr[i] = ", ")

\* C8: the sensor and satellite attributes of a file list the instrument
\* and satellite names of the scenes written to its bucket, one name per
\* scene, in the order of the calls, repeats kept.
C8_Provenance ==
    \A b \in Buckets :
        LET ws == WrittenTo(b)
            file == folder[output_filename(b)]
        IN  /\ Separated(file.sensor) /\ Separated(file.satellite)
            /\ Names(file.sensor)
                 = [i \in DOMAIN ws |-> ws[i].scene.attrs.InstrumentName]
            /\ Names(file.satellite)
                 = [i \in DOMAIN ws |-> ws[i].scene.attrs.SatelliteName]

\* Two scenes of the same satellite were written to one file.
C8_Witness ==
    \E f \in DOMAIN folder :
        /\ folder[f].satellite = <<"NOAA20", ", ", "NOAA20">>
        /\ folder[f].sensor = <<"ATMS", ", ", "ATMS">>

\* ================================================= claims: resample_swaths
\* Whether a sample of scene_in lies within 16 km of the point (py, px) km.
NearSample(py, px) ==
    \E k \in scene_in.scans, j \in 1..Cols8 :
        (8 * k - 4 - py) * (8 * k - 4 - py)
            + (8 * j - 4 - px) * (8 * j - 4 - px) <= 16 * 16

\* The entry of the dict for swath s on a grid of rows x cols cells of
\* res km: the brightness temperatures of the swath where a sample is
\* within the radius of the cell's centre, NaN elsewhere.
ResampledOnto(entry, s, rows, cols, res) ==
    /\ DOMAIN entry = 1..rows
    /\ \A y \in 1..rows :
         /\ DOMAIN entry[y] = 1..cols
         /\ \A x \in 1..cols :
              entry[y][x] =
                IF NearSample(res * y - res \div 2, res * x - res \div 2)
                THEN tbs(scene_in, s)
                ELSE [ch \in 0..(SwathChannels[s] - 1) |-> NaN]

ResampledEntries ==
    /\ ResampledOnto(tbs_out.tbs_s1, "s1", Rows16, Cols16, 16)
    /\ ResampledOnto(tbs_out.tbs_s3, "s3", Rows8, Cols8, 8)
    /\ ResampledOnto(tbs_out.tbs_s4, "s4", Rows8, Cols8, 8)

\* C4 (amended): resample_swaths returns a dict with exactly the three
\* entries tbs_s1, tbs_s3 and tbs_s4 (none for the swath s2 of the input):
\* tbs_s1 resampled onto the 16-km grid, tbs_s3 and tbs_s4 onto the 8-km
\* grid, with NaN in the cells that have no sample within 16 km.
C4_ThreeSwaths ==
    tbs_out # <<>> =>
        /\ tbs_out.keys = <<"tbs_s1", "tbs_s3", "tbs_s4">>
        /\ DOMAIN tbs_out = {"keys", "tbs_s1", "tbs_s3", "tbs_s4"}
        /\ ResampledEntries

\* C4 as stated: one entry per swath of the input, tbs_s2 included.
C4_EntryPerSwath ==
    tbs_out # <<>> =>
        /\ \A key \in {"tbs_s1", "tbs_s2", "tbs_s3", "tbs_s4"} :
               key \in scene_in.vars =>
                   \E k \in DOMAIN tbs_out.keys : tbs_out.keys[k] = key
        /\ ResampledEntries

\* A swath that covers part of the domain was resampled: cells near it
\* hold its values, cells away from it are missing.
C4_Witness ==
    /\ tbs_out # <<>>
    /\ scene_in.scans = 4..60
    /\ tbs_out.tbs_s4[62][1][5] = scene_in.base + 9000
    /\ tbs_out.tbs_s4[63][1][5] = NaN
    /\ tbs_out.tbs_s1[1][1][0] = NaN
    /\ tbs_out.tbs_s1[2][1][0] = scene_in.base + 1000
    /\ tbs_out.tbs_s3[1][1][0] = NaN

\* ===================================================== claims: process_day
\* Whether the swath of the metadata of file f intersects the polygon of
\* the domain, which spans the scans 1..Rows8.
SwathIntersectsROI(f) ==
    FileInfo[f].swath.lo <= Rows8 /\ FileInfo[f].swath.hi >= 1

\* C3: a file is downloaded, opened and processed only if the swath of its
\* metadata intersects the ROI polygon, and only after its metadata was
\* fetched; no scene of a file that does not intersect is ever saved.
C3_OnlyIntersecting ==
    /\ \A k \in DOMAIN events :
         events[k].op \in {"mktmp", "download", "open", "process_file"} =>
           /\ SwathIntersectsROI(events[k].file)
           /\ \E m \in 1..(k - 1) :
                events[m].op = "metadata" /\ events[m].file = events[k].file
    /\ \A k \in DOMAIN calls :
         \E f \in DOMAIN FileInfo :
           /\ FileInfo[f].d = calls[k].d
           /\ SwathIntersectsROI(f)
           /\ \E m \in DOMAIN events :
                events[m].op = "process_file" /\ events[m].file = f

\* A day is done in which the metadata of a file off the ROI was fetched
\* and the file was not downloaded, and a file over the ROI was processed.
C3_Witness ==
    /\ pc = "done"
    /\ \E k \in DOMAIN events :
         /\ events[k].op = "metadata" /\ events[k].file = "n20_b"
         /\ k < Len(events)
         /\ events[k + 1].op = "metadata" /\ events[k + 1].file = "n20_a"
    /\ ~ \E k \in DOMAIN events :
           events[k].op = "download" /\ events[k].file = "n20_b"
    /\ \E k \in DOMAIN events :
         events[k].op = "process_file" /\ events[k].file = "n20_a"
    /\ DOMAIN folder # {}

\* The calls of a file, in order, as <<op, file>>.
StepsOf(f) ==
    IF SwathIntersectsROI(f)
    THEN <<<<"metadata", f>>, <<"mktmp", f>>, <<"download", f>>,
           <<"open", f>>, <<"process_file", f>>, <<"rmtmp", f>>>>
    ELSE <<<<"metadata", f>>>>

RECURSIVE StepsOfFiles(_, _)
StepsOfFiles(files, k) ==
    IF k > Len(files) THEN <<>>
    ELSE StepsOf(files[k]) \o StepsOfFiles(files, k + 1)

RECURSIVE StepsOfProducts(_)
\* The calls of the first n listings, products in the order NOAA-20, NPP.
StepsOfProducts(n) ==
    IF n = 0 THEN <<>>
    ELSE StepsOfProducts(n - 1)
            \o <<<<"list", <<"l1c_noaa20_atms", "l1c_npp_atms">>[n]>>>>
            \o StepsOfFiles(listed[n], 1)

\* The calls made before any exception, the mkdir aside, as <<op, file>>.
CallsMade ==
    LET normal == SelectSeq(events, LAMBDA e : e.op # "mkdir")
        stop == {k \in DOMAIN normal : normal[k].op = "raise"}
        n == IF stop = {} THEN Len(normal)
             ELSE (CHOOSE k \in stop : \A m \in stop : k <= m) - 1
    IN  [k \in 1..n |-> <<normal[k].op, normal[k].file>>]

IsPrefix(a, b) == Len(a) <= Len(b) /\ a = SubSeq(b, 1, Len(a))

\* C9: process_day lists the products in the order of ATMS_PRODUCTS for
\* 00:00 to 23:59 of the day and handles the files listed one at a time in
\* the order listed: metadata, and for a file over the ROI a fresh temporary
\* directory, download, open, process_file, each once and in this order; no
\* temporary directory is left when the next file is turned to or an
\* exception leaves process_day; <output_folder>/microwave exists from the
\* first step on and nothing is written outside it.
C9_OneFileAtATime ==
    /\ IsPrefix(CallsMade, StepsOfProducts(Len(listed)))
    /\ pc = "done" => /\ Len(listed) = 2
                      /\ CallsMade = StepsOfProducts(2)
    /\ \A k \in DOMAIN events :
         /\ events[k].op = "list" =>
              events[k].range = <<today * 1440, today * 1440 + 23 * 60 + 59>>
         /\ events[k].op = "mktmp" =>
              \A m \in 1..(k - 1) : events[m].tmp # events[k].tmp
         /\ events[k].op \in {"download", "open"} =>
              \E m \in 1..(k - 1) :
                  /\ events[m].op = "mktmp"
                  /\ events[m].tmp = events[k].tmp
                  /\ events[m].file = events[k].file
    /\ Cardinality(tmpdirs) <= 1
    /\ pc \in {"list", "file", "done", "raised"} => tmpdirs = {}
    /\ pc # "start" => "microwave" \in dirs
    /\ root = <<>>

\* A day is done in which both products listed a file over the ROI.
C9_Witness ==
    /\ pc = "done"
    /\ listed = <<<<"n20_b", "n20_a">>, <<"npp_d", "npp_c">>>>
    /\ ntmp = 3
    /\ \E k \in DOMAIN events : events[k].op = "mkdir"
    /\ Cardinality(DOMAIN folder) = 2

\* ==================================================== claims: process_file
\* The passes of file d that have scans over the domain.
PassesOver(d) ==
    SelectSeq(L1CFiles[d].passes, LAMBDA ps : ps.scans \cap (1..Rows8) # {})

RECURSIVE SavedWholeFile(_, _, _, _)
\* The folder after the whole file's resampled observations were saved once
\* for every pass from k on, under the scan times of the pass.
SavedWholeFile(d, passes, k, fold) ==
    IF k > Len(passes) THEN fold
    ELSE SavedWholeFile(d, passes, k + 1,
            save_scene(domain,
                       [scan_time |-> passes[k].scan_time,
                        attrs |-> L1CFiles[d].attrs],
                       Resampled[d], fold))

\* C10: process_file saves, for every overpass, the observations of the
\* whole file resampled, under the time bucket and the attributes of the
\* overpass; a file without an overpass writes nothing; the caller's
\* dataset is left as it was.
C10_WholeFileSaved ==
    [][pc = "process" /\ pc' = "cleanup" =>
        LET d == FileInfo[filename].d
        IN  /\ folder' = SavedWholeFile(d, PassesOver(d), 1, folder)
            /\ PassesOver(d) = <<>> => folder' = folder
            /\ Len(calls') = Len(calls) + Len(PassesOver(d))
            /\ l1c_data' = l1c_data
            /\ l1c_data'.vars = L1CVars]_vars

\* A file with two overpasses was processed: both scenes are saved, into
\* different buckets, with the same observations.
C10_Witness ==
    /\ pc = "cleanup"
    /\ filename = "npp_c"
    /\ Len(calls) = 2
    /\ calls[1].d = 7 /\ calls[2].d = 7
    /\ calls[1].scene.scans # calls[2].scene.scans
    /\ Cardinality(DOMAIN folder) = 2
    /\ \A f, g \in DOMAIN folder : folder[f].bands = folder[g].bands

\* ========================================================= claims: encoder
\* C6: forward returns a dict that maps the names of the inputs to dicts of
\* multi-scale feature maps.
C6_DictByInput ==
    (enc_out # <<>> /\ enc_out.kind # "raise") =>
        /\ enc_out.kind = "by_input"
        /\ DOMAIN enc_out.items = {enc_inputs[k] : k \in DOMAIN enc_inputs}
        /\ \A n \in DOMAIN enc_out.items : enc_out.items[n].kind = "features"

====
